---- MODULE Spec2Model ----
(***************************************************************************)
(* Model of the Xcode color-set exporter (lkrish-mbrdi/supernova).         *)
(*                                                                         *)
(*   src/unnamed/part_000                        theme grouping            *)
(*       lines 1-77    current groupThemes                                 *)
(*       lines 79-134  earlier groupThemes                                 *)
(*   src/exporters/xcode-color-set/src/index.ts  logger and export run     *)
(*       lines 1-333   current export (awaited for-of loop)                *)
(*       lines 335-598 earlier export (forEach with async callback)        *)
(*                                                                         *)
(* Strings the code trims, lower-cases, matches or splits are sequences of *)
(* one-character strings, so that those conversions are computed.          *)
(***************************************************************************)
EXTENDS Integers, Sequences, FiniteSets, TLC

VARIABLES
  globalLogger,   \* index.ts:53   the process-wide Logger, or NoLogger
  gThemes,        \* part_000:44   groupThemes: the argument `themes`
  gGroups,        \* part_000:50   groupThemes: the Map `groups`
  gIdx,           \* part_000:52   groupThemes: position of the for-of loop
  gPc,            \* groupThemes: "call" | "loop" | "done"
  gResult,        \* part_000:70   groupThemes: the returned array
  exporter,       \* which export the process runs: "current" | "earlier"
  run,            \* "first" | "second": the export run of this process
  config,         \* index.ts:29   exportConfiguration
  context,        \* index.ts:61   context: themeIds, isPreview
  pc,             \* position of the export callback
  files,          \* index.ts:63   files
  colorTokens,    \* index.ts:94   colorTokens
  themesToApply,  \* index.ts:98   themesToApply
  groupedThemes,  \* index.ts:123  groupedThemes
  gi,             \* index.ts:138  position of the loop over groupedThemes
  pending,        \* index.ts:307  files of the group whose write-back is awaited
  writes,         \* index.ts:191  property writes done, in order
  applied,        \* index.ts:320  calls of computeTokensByApplyingThemes made
  result,         \* index.ts:144  the file list the caller receives, if any
  prev,           \* what the first run ended with, kept for comparison
  callbacks,      \* index.ts:488  the forEach callbacks: state and created files
  microtasks,     \* the job queue: continuations ready to run, in order
  loggerCalls     \* index.ts:54   the calls a client module has made on the
                  \* logger, in order, when the logger is used on its own

groupVars == <<gThemes, gGroups, gIdx, gPc, gResult>>

exportVars == <<exporter, run, config, context, pc, files, colorTokens,
                themesToApply, groupedThemes, gi, pending, writes, applied,
                result, prev, callbacks, microtasks>>

vars == <<globalLogger, gThemes, gGroups, gIdx, gPc, gResult,
          exporter, run, config, context, pc, files, colorTokens,
          themesToApply, groupedThemes, gi, pending, writes, applied,
          result, prev, callbacks, microtasks, loggerCalls>>

---------------------------------------------------------------------------
(* Bounds *)

\* most calls a client module makes on the logger
MaxLoggerCalls == 4

\* longest argument of a direct groupThemes call
MaxThemes == 3

\* most theme ids a run's context selects
MaxThemeIds == 2

---------------------------------------------------------------------------
(* Characters and the string functions of the code *)

UpperCase == <<"A","B","C","D","E","F","G","H","I","J","K","L","M",
               "N","O","P","Q","R","S","T","U","V","W","X","Y","Z">>
LowerCase == <<"a","b","c","d","e","f","g","h","i","j","k","l","m",
               "n","o","p","q","r","s","t","u","v","w","x","y","z">>
Digits == {"0","1","2","3","4","5","6","7","8","9"}

\* the characters JavaScript's \s and trim() treat as white space (those used)
IsWhitespace(c) == c \in {" ", "\t", "\n"}

\* a character of the regular-expression class \w
IsWordChar(c) ==
  \/ \E k \in 1..26 : c = UpperCase[k] \/ c = LowerCase[k]
  \/ c \in Digits
  \/ c = "_"

toLowerChar(c) ==
  IF \E k \in 1..26 : c = UpperCase[k]
  THEN LowerCase[CHOOSE k \in 1..26 : c = UpperCase[k]]
  ELSE c

toUpperChar(c) ==
  IF \E k \in 1..26 : c = LowerCase[k]
  THEN UpperCase[CHOOSE k \in 1..26 : c = LowerCase[k]]
  ELSE c

\* String.prototype.toLowerCase
toLowerCase(s) == [k \in 1..Len(s) |-> toLowerChar(s[k])]

RECURSIVE trimStart(_)
trimStart(s) ==
  IF s # <<>> /\ IsWhitespace(Head(s)) THEN trimStart(Tail(s)) ELSE s

RECURSIVE trimEnd(_)
trimEnd(s) ==
  IF s # <<>> /\ IsWhitespace(s[Len(s)])
  THEN trimEnd(SubSeq(s, 1, Len(s) - 1))
  ELSE s

\* String.prototype.trim
trim(s) == trimEnd(trimStart(s))

\* /\bWORD\b$/.test(s) for a WORD of word characters: s ends with WORD and
\* the character before it, if any, is not a word character
endsWithWord(s, word) ==
  /\ Len(s) >= Len(word)
  /\ SubSeq(s, Len(s) - Len(word) + 1, Len(s)) = word
  /\ Len(s) > Len(word) => ~IsWordChar(s[Len(s) - Len(word)])

\* s.split(/\s+/)[0]: the characters before the first white space
RECURSIVE firstSplit(_)
firstSplit(s) ==
  IF s = <<>> \/ IsWhitespace(Head(s))
  THEN <<>>
  ELSE <<Head(s)>> \o firstSplit(Tail(s))

\* the least and the greatest of a set of positions
MinOf(S) == CHOOSE x \in S : \A y \in S : x <= y
MaxOf(S) == CHOOSE x \in S : \A y \in S : x >= y

W_light == <<"l","i","g","h","t">>
W_dark  == <<"d","a","r","k">>

---------------------------------------------------------------------------
(* Theme records (TokenTheme: id, idInVersion, name) *)

NoTheme == [id |-> "", idInVersion |-> "", name |-> <<>>]

\* the themes of the design-system version, as sdk.tokens.getTokenThemes
\* returns them
themes == <<
  [id |-> "t1", idInVersion |-> "v1",
   name |-> <<"B","r","a","n","d"," ","L","i","g","h","t">>],
  [id |-> "t2", idInVersion |-> "v2",
   name |-> <<"B","r","a","n","d"," ","D","a","r","k">>],
  [id |-> "t3", idInVersion |-> "v3",
   name |-> <<" "," ","n","i","g","h","t"," "," ","L","I","G","H","T"," ">>],
  [id |-> "t4", idInVersion |-> "v4",
   name |-> <<"H","i","g","h","l","i","g","h","t">>],
  [id |-> "t5", idInVersion |-> "v5",
   name |-> <<"B","r","a","n","d","\t","l","i","g","h","t">>],
  [id |-> "t6", idInVersion |-> "v6",
   name |-> <<"N","i","g","h","t","-","D","a","r","k">>],
  [id |-> "t7", idInVersion |-> "v7",
   name |-> <<"B","r","a","n","d">>] >>

ThemeSet == {themes[k] : k \in 1..Len(themes)}

RECURSIVE SeqsUpTo(_, _)
SeqsUpTo(S, n) ==
  IF n = 0 THEN {<<>>}
  ELSE LET shorter == SeqsUpTo(S, n - 1)
       IN shorter \cup {Append(q, x) : q \in {r \in shorter : Len(r) = n - 1}, x \in S}

---------------------------------------------------------------------------
(* Logger (index.ts:31-59) *)

NoLogger == [created |-> FALSE, path |-> <<>>, content |-> <<>>]

\* new Logger(rootPath): the log file with its relativePath and empty content
NewLogger(rootPath) ==
  [created |-> TRUE,
   path    |-> IF rootPath # "" THEN <<".", rootPath, "">> ELSE <<>>,
   content |-> <<>>]

\* a getLogger that makes a new Logger at every call (a variant of the code)
getLoggerAlwaysNew(logger, rootPath) == NewLogger(rootPath)

\* getLogger(rootPath): the instance after the call
getLogger(logger, rootPath) ==
  IF ~logger.created THEN NewLogger(rootPath) ELSE logger

\* Logger.log, once per line of `lines`, in order; the lines of the text
\* are kept apart as the elements of the sequence (every message the
\* source logs begins with a literal text, so none is empty)
logAll(logger, lines) == [logger EXCEPT !.content = @ \o lines]

\* Logger.log(message) on the text itself: content and message are
\* sequences of characters
log(logger, message) ==
  [logger EXCEPT !.content = IF @ # <<>> THEN @ \o <<"\n">> \o message
                             ELSE message]

---------------------------------------------------------------------------
(* Theme grouping, current variant (part_000:1-77) *)

\* getThemeVariant without the trim (a variant of the code)
getThemeVariantNoTrim(name) ==
  LET normalized == toLowerCase(name)
  IN IF endsWithWord(normalized, W_light) THEN "light"
     ELSE IF endsWithWord(normalized, W_dark) THEN "dark"
     ELSE "undefined"

\* getThemeVariant without the word boundary before the suffix (a variant of
\* the code)
getThemeVariantNoBoundary(name) ==
  LET normalized == toLowerCase(trim(name))
      ends(word) == /\ Len(normalized) >= Len(word)
                    /\ SubSeq(normalized, Len(normalized) - Len(word) + 1, Len(normalized)) = word
  IN IF ends(W_light) THEN "light"
     ELSE IF ends(W_dark) THEN "dark"
     ELSE "undefined"

getThemeVariant(name) ==
  LET normalized == toLowerCase(trim(name))
  IN IF endsWithWord(normalized, W_light) THEN "light"
     ELSE IF endsWithWord(normalized, W_dark) THEN "dark"
     ELSE "undefined"

deriveBaseThemeName(name) ==
  LET trimmed == trim(name)
  IN IF trimmed = <<>> THEN trimmed ELSE firstSplit(trimmed)

\* a Map<string, ThemeVariantMap> is the sequence of its entries in
\* insertion order
EmptyPair == [light |-> NoTheme, dark |-> NoTheme]

MapHas(m, key) == \E k \in 1..Len(m) : m[k].key = key

MapGet(m, key) == m[CHOOSE k \in 1..Len(m) : m[k].key = key].value

\* a set that adds an entry even for a present key (a variant of the code)
MapSetAlwaysAppend(m, key, value) == Append(m, [key |-> key, value |-> value])

\* a set that moves a present key to the end (a variant of the code)
MapSetMoveToEnd(m, key, value) ==
  Append(SelectSeq(m, LAMBDA e : e.key # key), [key |-> key, value |-> value])

\* Map.prototype.set: a present key keeps its position
MapSet(m, key, value) ==
  IF MapHas(m, key)
  THEN [k \in 1..Len(m) |-> IF m[k].key = key
                             THEN [key |-> key, value |-> value]
                             ELSE m[k]]
  ELSE Append(m, [key |-> key, value |-> value])

\* groups.get(base) ?? {}
EntryOf(groups, base) ==
  IF MapHas(groups, base) THEN MapGet(groups, base) ELSE EmptyPair

\* the iteration with first-wins instead of last-wins (a variant of the code)
GroupStepKeepFirst(groups, t) ==
  LET variant == getThemeVariant(t.name)
      base    == deriveBaseThemeName(t.name)
      entry   == EntryOf(groups, base)
  IN IF variant = "undefined" THEN groups
     ELSE IF entry[variant] # NoTheme THEN groups
     ELSE MapSet(groups, base, [entry EXCEPT ![variant] = t])

\* one iteration of the loop at part_000:52-68: the Map after it
GroupStep(groups, t) ==
  LET variant == getThemeVariant(t.name)
      base    == deriveBaseThemeName(t.name)
      entry   == EntryOf(groups, base)
  IN IF variant = "undefined" THEN groups
     ELSE MapSet(groups, base, [entry EXCEPT ![variant] = t])

\* the lines that iteration logs
GroupStepLog(groups, t) ==
  LET variant == getThemeVariant(t.name)
      base    == deriveBaseThemeName(t.name)
      entry   == EntryOf(groups, base)
  IN IF variant = "undefined" THEN << <<"Skipping theme", t.name>> >>
     ELSE IF entry[variant] # NoTheme
          THEN << <<"Duplicate theme", variant, base>> >>
          ELSE <<>>

\* createThemeGroup with the two variants in each other's place (a variant
\* of the code)
createThemeGroupSwapped(name, variants) ==
  [name |-> name, lightTheme |-> variants.dark, darkTheme |-> variants.light]

createThemeGroup(name, variants) ==
  [name |-> name, lightTheme |-> variants.light, darkTheme |-> variants.dark]

\* part_000:70-76: the groups with a light or a dark theme, in Map order
RECURSIVE GroupResult(_)
GroupResult(groups) ==
  IF groups = <<>> THEN <<>>
  ELSE LET e == Head(groups)
       IN (IF e.value.light # NoTheme \/ e.value.dark # NoTheme
           THEN <<createThemeGroup(e.key, e.value)>>
           ELSE <<>>) \o GroupResult(Tail(groups))

\* the Map and the log lines after the loop has run over ts
RECURSIVE GroupsAfter(_)
GroupsAfter(ts) ==
  IF ts = <<>> THEN <<>>
  ELSE GroupStep(GroupsAfter(SubSeq(ts, 1, Len(ts) - 1)), ts[Len(ts)])

RECURSIVE GroupLogAfter(_)
GroupLogAfter(ts) ==
  IF ts = <<>> THEN <<>>
  ELSE LET before == SubSeq(ts, 1, Len(ts) - 1)
       IN GroupLogAfter(before) \o GroupStepLog(GroupsAfter(before), ts[Len(ts)])

\* groupThemes(ts): the returned array
groupThemes(ts) == IF Len(ts) = 0 THEN <<>> ELSE GroupResult(GroupsAfter(ts))

\* groupThemes(ts): the logger after the call
groupThemesLogger(logger, ts) ==
  IF Len(ts) = 0 THEN logger
  ELSE logAll(getLogger(logger, ""), GroupLogAfter(ts))


---------------------------------------------------------------------------
(* Theme grouping, earlier variant (part_000:79-134) *)

\* /\sWORD\s*$/.test(name.toLowerCase())
endsWithSpacedWord(name, word) ==
  LET s == trimEnd(toLowerCase(name))
  IN /\ Len(s) > Len(word)
     /\ SubSeq(s, Len(s) - Len(word) + 1, Len(s)) = word
     /\ IsWhitespace(s[Len(s) - Len(word)])

isLightThemeName(name) == endsWithSpacedWord(name, W_light)

isDarkThemeName(name) == endsWithSpacedWord(name, W_dark)

baseNameFromTheme(name) == firstSplit(trim(name))

\* part_000:116-124: one iteration; the Map gets an entry for every theme
EarlierGroupStep(groups, t) ==
  LET base  == baseNameFromTheme(t.name)
      entry == EntryOf(groups, base)
  IN MapSet(groups, base,
            IF isLightThemeName(t.name) THEN [entry EXCEPT !.light = t]
            ELSE IF isDarkThemeName(t.name) THEN [entry EXCEPT !.dark = t]
            ELSE entry)

RECURSIVE EarlierGroupsAfter(_)
EarlierGroupsAfter(ts) ==
  IF ts = <<>> THEN <<>>
  ELSE EarlierGroupStep(EarlierGroupsAfter(SubSeq(ts, 1, Len(ts) - 1)), ts[Len(ts)])

\* part_000:111-134: the returned array
earlierGroupThemes(ts) == GroupResult(EarlierGroupsAfter(ts))

\* part_000:112-128: the lines it logs
RECURSIVE EarlierGroupLog(_)
EarlierGroupLog(ts) ==
  IF ts = <<>> THEN <<>>
  ELSE LET t     == ts[Len(ts)]
           entry == MapGet(EarlierGroupsAfter(ts), baseNameFromTheme(t.name))
       IN EarlierGroupLog(SubSeq(ts, 1, Len(ts) - 1))
            \o << <<"Processing theme", t.name>>,
                  <<"Base name from theme", t.name, baseNameFromTheme(t.name)>>,
                  <<"Processing theme", t.name, baseNameFromTheme(t.name),
                    entry.light # NoTheme, entry.dark # NoTheme>> >>

earlierGroupThemesLogger(logger, ts) ==
  LET groups == EarlierGroupsAfter(ts)
  IN logAll(getLogger(logger, ""),
            << <<"Grouping themes", Len(ts)>> >>
              \o EarlierGroupLog(ts)
              \o [k \in 1..Len(groups) |->
                    <<"Grouping theme base", groups[k].key,
                      groups[k].value.light # NoTheme, groups[k].value.dark # NoTheme>>])

---------------------------------------------------------------------------
(* The data of the design-system version and the inputs of a run *)

\* sdk.tokens.getTokens: three color tokens (two of one name, one of a
\* collection that is not in the list) and one token of another type
tokens == <<
  [id |-> "k1", tokenType |-> "color",     collectionId |-> "c1", name |-> "primary", value |-> "raw-k1"],
  [id |-> "k2", tokenType |-> "color",     collectionId |-> "c2", name |-> "primary", value |-> "raw-k2"],
  [id |-> "k3", tokenType |-> "color",     collectionId |-> "c9", name |-> "accent",  value |-> "raw-k3"],
  [id |-> "k4", tokenType |-> "dimension", collectionId |-> "c1", name |-> "gap",     value |-> "raw-k4"] >>

\* sdk.tokens.getTokenGroups
tokenGroups == << [id |-> "g1", name |-> "colors"] >>

\* sdk.tokens.getTokenCollections
tokenCollections == <<
  [persistentId |-> "c1", name |-> <<"P","r","i","m","i","t","i","v","e","s"," ">>],
  [persistentId |-> "c2", name |-> <<"B","r","a","n","d">>] >>

\* the values a theme gives, by theme id: what
\* sdk.tokens.computeTokensByApplyingThemes(tokens, tokens, [theme]) holds
\* for that theme, in order (a token may be missing, an id may come twice)
themedValues(themeId) ==
  CASE themeId = "t1" -> << <<"k1", "t1-k1">>, <<"k4", "t1-k4">> >>
    [] themeId = "t2" -> << <<"k1", "t2-k1-a">>, <<"k3", "t2-k3">>, <<"k1", "t2-k1">> >>
    [] themeId = "t3" -> << <<"k1", "t3-k1">>, <<"k2", "t3-k2">>, <<"k3", "t3-k3">> >>
    [] themeId = "t5" -> << <<"k2", "t5-k2">> >>
    [] themeId = "t6" -> << <<"k3", "t6-k3">> >>
    [] OTHER -> <<>>

\* the theme ids a context may select: by id, by idInVersion (v3), and one
\* that no theme has
RequestIds == {"t1", "t2", "v3", "t4", "zz"}

\* the exclusion lists tried: none, and one entry in another case with
\* white space around it
ExcludedLists ==
  { <<>>, << <<" ","P","R","I","M","I","T","I","V","E","S">> >> }

Configs ==
  [generateRootCatalog : BOOLEAN,
   rootCatalogPath : {""},
   excludeCollectionsInPipelines : BOOLEAN,
   excludedCollections : ExcludedLists,
   writeNameToProperty : BOOLEAN,
   propertyToWriteNameTo : {"xcodeName"}]

Contexts == [themeIds : SeqsUpTo(RequestIds, MaxThemeIds), isPreview : BOOLEAN]

---------------------------------------------------------------------------
(* Output files *)

\* FileHelper.createTextFile: where the file goes and what it holds.  root
\* is the root path, folder the namespace folder, leaf the color set's
\* folder; colors and namespace are the content of a Contents.json; group
\* and token tell which theme group and token the file was made for.
File(kind, root, folder, leaf, fileName, namespace, colors, group, token) ==
  [kind |-> kind, root |-> root, folder |-> folder, leaf |-> leaf,
   name |-> fileName, namespace |-> namespace, colors |-> colors,
   group |-> group, token |-> token]

NoLeaf == [name |-> "", n |-> 0]

\* logger.getFile(): the log file; its path and content are the logger's
LogFile == File("log", "", <<>>, NoLeaf, "log.txt", FALSE, <<>>, 0, "")

\* index.ts:221-226
resolveRootPath(cfg) ==
  IF ~cfg.generateRootCatalog THEN ""
  ELSE IF cfg.rootCatalogPath # "" THEN cfg.rootCatalogPath ELSE "Colors.xcassets"

\* createCatalogRootFile(rootPath): the root catalog's Contents.json
createCatalogRootFile(rootPath) ==
  File("root", rootPath, <<>>, NoLeaf, "Contents.json", FALSE, <<>>, 0, "")

\* index.ts:208-219; g is the index of the theme group it is made for
createNameSpaceFolder(name, rootPath, g) ==
  File("namespace", rootPath, name, NoLeaf, "Contents.json", TRUE, <<>>, g, "")

\* NamingHelper.codeSafeVariableName(name, StringCase.pascalCase): the words
\* of the name (runs of letters and digits), each with its first letter in
\* upper case and the rest in lower case, joined
RECURSIVE pascalCase(_, _)
pascalCase(s, atWordStart) ==
  IF s = <<>> THEN <<>>
  ELSE IF ~IsWordChar(Head(s)) \/ Head(s) = "_" THEN pascalCase(Tail(s), TRUE)
  ELSE <<IF atWordStart THEN toUpperChar(Head(s)) ELSE toLowerChar(Head(s))>>
         \o pascalCase(Tail(s), FALSE)

codeSafeVariableName(name) == pascalCase(name, TRUE)

\* new Map(seq.map(t => [t.id, t])).has(id)
ByIdHas(seq, id) == \E k \in 1..Len(seq) : seq[k].id = id

\* new Map(seq.map(t => [t.id, t])).get(id): the last entry of that id
ByIdGet(seq, id) ==
  seq[CHOOSE k \in 1..Len(seq) :
        seq[k].id = id /\ \A j \in (k + 1)..Len(seq) : seq[j].id # id]

\* the token with this id among the fetched ones
TokenOfId(id) == tokens[CHOOSE k \in 1..Len(tokens) : tokens[k].id = id]

\* index.ts:312-321
computeTokensForTheme(theme) ==
  IF theme = NoTheme THEN <<>>
  ELSE LET vs == themedValues(theme.id)
       IN [k \in 1..Len(vs) |-> [TokenOfId(vs[k][1]) EXCEPT !.value = vs[k][2]]]

\* the calls of sdk.tokens.computeTokensByApplyingThemes that makes, for
\* group g
computeCalls(theme, g) ==
  IF theme = NoTheme THEN <<>> ELSE << [group |-> g, theme |-> theme.id] >>

\* createPerTokenFile(baseToken, tokenGroups, colorsPath, variants, tracker,
\* nameStyle): the color set of one token: a base entry and one entry per
\* variant, marked dark; used lists the names the tracker has given out in
\* this pass, and the folder name is told apart by how many times the
\* token's name was given out before
createPerTokenFile(baseToken, rootPath, themeName, variantTokens, used, g) ==
  File("colorset", rootPath, themeName,
       [name |-> baseToken.name,
        n |-> Cardinality({k \in 1..Len(used) : used[k] = baseToken.name})],
       "Contents.json", FALSE,
       << [value |-> baseToken.value, appearance |-> "universal"] >>
         \o [k \in 1..Len(variantTokens) |->
               [value |-> variantTokens[k].value, appearance |-> "dark"]],
       g, baseToken.id)


---------------------------------------------------------------------------
(* The export run, current variant (index.ts:61-333) *)

\* index.ts:94
colorTokensOf(ts) == SelectSeq(ts, LAMBDA t : t.tokenType = "color")

\* themes.find(t => t.id === themeId || t.idInVersion === themeId)
ThemeMatches(themeId) ==
  {k \in 1..Len(themes) : themes[k].id = themeId \/ themes[k].idInVersion = themeId}

\* index.ts:102: themes.find(...), NoTheme for undefined
findTheme(themeId) ==
  IF ThemeMatches(themeId) = {} THEN NoTheme
  ELSE themes[MinOf(ThemeMatches(themeId))]

\* the test with only the last requested id looked at (a variant of the
\* code)
ResolveThrowsLastOnly(themeIds) ==
  Len(themeIds) > 0 /\ findTheme(themeIds[Len(themeIds)]) = NoTheme

\* index.ts:101-107: some requested id finds no theme, and the map throws
ResolveThrows(themeIds) ==
  \E k \in 1..Len(themeIds) : findTheme(themeIds[k]) = NoTheme

\* index.ts:101-107: the themes found, in the order of the ids
ResolveThemes(themeIds) ==
  [k \in 1..Len(themeIds) |-> findTheme(themeIds[k])]

\* index.ts:253-255
excludedCollectionNames(cfg) ==
  {trim(toLowerCase(cfg.excludedCollections[k])) : k \in 1..Len(cfg.excludedCollections)}

\* the filter's test without the trim of the collection's name (a variant of
\* the code)
KeepsTokenNoTrim(cfg, token) ==
  LET found == {k \in 1..Len(tokenCollections) :
                  tokenCollections[k].persistentId = token.collectionId}
  IN IF found = {} THEN TRUE
     ELSE toLowerCase(tokenCollections[MinOf(found)].name)
            \notin excludedCollectionNames(cfg)

\* index.ts:257-263: the filter's test
KeepsToken(cfg, token) ==
  LET found == {k \in 1..Len(tokenCollections) :
                  tokenCollections[k].persistentId = token.collectionId}
  IN IF found = {} THEN TRUE
     ELSE trim(toLowerCase(tokenCollections[MinOf(found)].name))
            \notin excludedCollectionNames(cfg)

\* index.ts:242-270
filterExcludedCollections(cfg, cts) ==
  IF ~cfg.excludeCollectionsInPipelines \/ Len(cfg.excludedCollections) = 0
  THEN cts
  ELSE SelectSeq(cts, LAMBDA t : KeepsToken(cfg, t))

filterExcludedLog(cfg, cts) ==
  IF ~cfg.excludeCollectionsInPipelines \/ Len(cfg.excludedCollections) = 0
  THEN << <<"Excluded collections enabled: no">> >>
  ELSE << <<"Excluded collections enabled: yes">>,
          <<"Excluded collections", cfg.excludedCollections>>,
          <<"Color tokens after exclusions",
            Len(filterExcludedCollections(cfg, cts)), Len(cts)>> >>

\* index.ts:272-287
logGroupedThemes(grouped) ==
  IF Len(grouped) = 0 THEN << <<"Grouped themes: none">> >>
  ELSE << <<"Grouped themes", Len(grouped),
            [k \in 1..Len(grouped) |->
               <<grouped[k].name, grouped[k].lightTheme.name, grouped[k].darkTheme.name>>]>> >>

\* the test without the preview check (a variant of the code)
WriteBackEnabledInPreview(cfg, ctx) == cfg.writeNameToProperty

\* index.ts:189
WriteBackEnabled(cfg, ctx) == cfg.writeNameToProperty /\ ~ctx.isPreview

\* the base token without the themed value (a variant of the code)
BaseTokenOfRaw(token, baseTokens) == token

\* index.ts:178: baseById.get(token.id) || token
BaseTokenOf(token, baseTokens) ==
  IF ByIdHas(baseTokens, token.id) THEN ByIdGet(baseTokens, token.id) ELSE token

\* index.ts:179-180
VariantsOf(token, darkTokens) ==
  IF ByIdHas(darkTokens, token.id) THEN <<ByIdGet(darkTokens, token.id)>> ELSE <<>>

\* the files with one name tracker for the whole process instead of one per
\* call (a variant of the code)
ThemeColorFilesSharedTracker(cts, rootPath, themeName, lightTheme, darkTheme, g) ==
  LET baseTokens == computeTokensForTheme(lightTheme)
      darkTokens == computeTokensForTheme(darkTheme)
      before     == (IF prev.ended = "returned" THEN prev.result.files ELSE <<>>) \o files
      given      == SelectSeq(before, LAMBDA f : f.kind = "colorset")
  IN [k \in 1..Len(cts) |->
        createPerTokenFile(BaseTokenOf(cts[k], baseTokens), rootPath, themeName,
                           VariantsOf(cts[k], darkTokens),
                           [j \in 1..Len(given) |-> given[j].leaf.name]
                             \o [j \in 1..(k - 1) |-> BaseTokenOf(cts[j], baseTokens).name],
                           g)]

\* index.ts:162-185: the files createThemeColors creates for the group g
ThemeColorFiles(cts, rootPath, themeName, lightTheme, darkTheme, g) ==
  LET baseTokens == computeTokensForTheme(lightTheme)
      darkTokens == computeTokensForTheme(darkTheme)
  IN [k \in 1..Len(cts) |->
        createPerTokenFile(BaseTokenOf(cts[k], baseTokens), rootPath, themeName,
                           VariantsOf(cts[k], darkTokens),
                           [j \in 1..(k - 1) |-> BaseTokenOf(cts[j], baseTokens).name],
                           g)]

\* index.ts:190-195: the property writes of writeTokenProperties for group
\* g, one per color token, each the name its color set was given
PropertyWrites(cfg, cts, created, g) ==
  [k \in 1..Len(cts) |->
     [group |-> g, token |-> cts[k].id,
      property |-> cfg.propertyToWriteNameTo, name |-> created[k].leaf]]

\* index.ts:292-305 and 165-186: the lines logged for a group up to the
\* write-back
ThemeGroupLogBefore(group, rootPath, cts) ==
  << <<"Grouped theme", group.name, group.lightTheme # NoTheme, group.darkTheme # NoTheme>>,
     <<"Root path for theme", rootPath>>,
     <<"Created namespace folder for theme", rootPath, codeSafeVariableName(group.name)>> >>
  \o (IF group.lightTheme = NoTheme
      THEN << <<"Skipped color generation", group.name>> >>
      ELSE << <<"Colors path", rootPath, codeSafeVariableName(group.name)>>,
              <<"Applied base theme", group.lightTheme.name>>,
              <<"Applied dark theme", group.darkTheme.name>>,
              <<"Emitted color set files", Len(cts)>> >>)

\* index.ts:196-203: the lines logged after it
ThemeColorsLogAfter(cfg, ctx, group, cts) ==
  << (IF WriteBackEnabled(cfg, ctx)
      THEN <<"Wrote exported names to property", cfg.propertyToWriteNameTo>>
      ELSE <<"Write-back disabled or preview mode">>),
     <<"Dark variants generated",
       Cardinality({k \in 1..Len(cts) :
                      ByIdHas(computeTokensForTheme(group.darkTheme), cts[k].id)})>> >>

\* the files without the early return for a group that has no light theme
\* (a variant of the code)
ExportThemeGroupFilesAlways(cfg, group, cts, g) ==
  LET rootPath  == resolveRootPath(cfg)
      themeName == codeSafeVariableName(group.name)
  IN <<createNameSpaceFolder(themeName, rootPath, g)>>
       \o ThemeColorFiles(cts, rootPath, themeName, group.lightTheme, group.darkTheme, g)

\* index.ts:289-310: the files exportThemeGroup returns for the group g
ExportThemeGroupFiles(cfg, group, cts, g) ==
  LET rootPath  == resolveRootPath(cfg)
      themeName == codeSafeVariableName(group.name)
  IN IF group.lightTheme = NoTheme
     THEN <<createNameSpaceFolder(themeName, rootPath, g)>>
     ELSE <<createNameSpaceFolder(themeName, rootPath, g)>>
            \o ThemeColorFiles(cts, rootPath, themeName, group.lightTheme, group.darkTheme, g)

NoResult == [returned |-> FALSE, files |-> <<>>]
NoPrev == [ended |-> "none"]

GroupIdle ==
  /\ gThemes = <<>>
  /\ gGroups = <<>>
  /\ gIdx = 1
  /\ gPc = "idle"
  /\ gResult = <<>>

\* the locals of a run before it starts
RunReset ==
  /\ files = <<>>
  /\ colorTokens = <<>>
  /\ themesToApply = <<>>
  /\ groupedThemes = <<>>
  /\ gi = 1
  /\ pending = <<>>
  /\ writes = <<>>
  /\ applied = <<>>
  /\ result = NoResult
  /\ callbacks = <<>>
  /\ microtasks = <<>>

\* no export in this process (a direct call of groupThemes)
ExportIdle ==
  /\ exporter = "current"
  /\ run = "first"
  /\ config = CHOOSE c \in Configs : ~c.generateRootCatalog /\ ~c.writeNameToProperty
                 /\ ~c.excludeCollectionsInPipelines /\ c.excludedCollections = <<>>
  /\ context = [themeIds |-> <<>>, isPreview |-> FALSE]
  /\ pc = "off"
  /\ prev = NoPrev
  /\ RunReset

ExportInit ==
  /\ globalLogger = NoLogger
  /\ loggerCalls = <<>>
  /\ GroupIdle
  /\ exporter = "current"
  /\ run = "first"
  /\ config \in Configs
  /\ context \in Contexts
  /\ pc = "idle"
  /\ prev = NoPrev
  /\ RunReset

\* index.ts:61-85: up to the await of loadTokenData
ExportStart ==
  /\ pc = "idle"
  /\ files' = <<LogFile>>
  /\ globalLogger' =
       logAll(getLogger(globalLogger, resolveRootPath(config)),
              << <<"Exporter: Xcode Color Set">>, <<"Started">>,
                 <<"Design System ID">>, <<"Version ID">>, <<"Brand ID">> >>)
  /\ pc' = IF exporter = "current" THEN "loadTokenData" ELSE "getTokens"
  /\ UNCHANGED <<loggerCalls, groupVars, exporter, run, config, context, colorTokens,
                 themesToApply, groupedThemes, gi, pending, writes, applied,
                 result, prev, callbacks, microtasks>>

\* index.ts:86-95
LoadedLog ==
  << <<"Fetched tokens", Len(tokens)>>,
     <<"Fetched token groups", Len(tokenGroups)>>,
     <<"token groups", [k \in 1..Len(tokenGroups) |-> tokenGroups[k].name]>>,
     <<"Fetched collections", Len(tokenCollections)>>,
     <<"token collections", [k \in 1..Len(tokenCollections) |-> tokenCollections[k].name]>>,
     <<"Filtered color tokens", Len(colorTokensOf(tokens))>> >>

\* index.ts:113-136 (and 449-487): from the exclusion filter to the loop
\* over the groups, for the logger lg, the color tokens cts and the resolved
\* themes
AfterResolve(lg, cts, resolved) ==
  LET rootPath == resolveRootPath(config)
      kept     == filterExcludedCollections(config, cts)
      lg1      == logAll(lg, filterExcludedLog(config, cts))
      lg2      == logAll(lg1, IF config.generateRootCatalog
                              THEN << <<"Created root catalog", rootPath>> >>
                              ELSE << <<"Root catalog generation disabled">> >>)
      grouped  == IF exporter = "current" THEN groupThemes(resolved)
                  ELSE earlierGroupThemes(resolved)
      lg3      == IF exporter = "current" THEN groupThemesLogger(lg2, resolved)
                  ELSE earlierGroupThemesLogger(lg2, resolved)
  IN /\ themesToApply' = resolved
     /\ colorTokens' = kept
     /\ files' = IF config.generateRootCatalog
                 THEN Append(files, createCatalogRootFile(rootPath))
                 ELSE files
     /\ groupedThemes' = grouped
     /\ globalLogger' = logAll(lg3, IF exporter = "current"
                                    THEN logGroupedThemes(grouped)
                                    ELSE << <<"Grouped themes", Len(grouped)>> >>)
     /\ gi' = 1
     /\ pc' = "groups"

\* index.ts:85-111: loadTokenData has resolved; without theme ids the run
\* goes on to the loop, with theme ids it awaits getTokenThemes
TokenDataLoaded ==
  /\ pc = "loadTokenData"
  /\ IF Len(context.themeIds) > 0
     THEN /\ pc' = "getTokenThemes"
          /\ colorTokens' = colorTokensOf(tokens)
          /\ globalLogger' = logAll(globalLogger, LoadedLog)
          /\ UNCHANGED <<files, themesToApply, groupedThemes, gi>>
     ELSE AfterResolve(logAll(globalLogger,
                              LoadedLog \o << <<"Resolved themes: none">> >>),
                       colorTokensOf(tokens), <<>>)
  /\ UNCHANGED <<loggerCalls, groupVars, exporter, run, config, context, pending, writes,
                 applied, result, prev, callbacks, microtasks>>

\* index.ts:100-108: getTokenThemes has resolved; an id without a theme
\* throws out of the callback, and the run ends rejected
ThemesFetched ==
  /\ pc = "getTokenThemes"
  /\ IF ResolveThrows(context.themeIds)
     THEN /\ pc' = "thrown"
          /\ UNCHANGED <<globalLogger, files, colorTokens, themesToApply,
                         groupedThemes, gi>>
     ELSE LET resolved == ResolveThemes(context.themeIds)
          IN AfterResolve(logAll(globalLogger,
                                 << <<"Resolved themes",
                                      [k \in 1..Len(resolved) |-> resolved[k].name]>> >>),
                          colorTokens, resolved)
  /\ UNCHANGED <<loggerCalls, groupVars, exporter, run, config, context, pending, writes,
                 applied, result, prev, callbacks, microtasks>>

\* index.ts:138-139, 289-310, 148-199: the loop takes the next group and
\* exportThemeGroup runs up to the await of the write-back; with no
\* write-back to wait for it runs to its end and the loop pushes its files
BeginGroup ==
  /\ exporter = "current"
  /\ pc = "groups"
  /\ gi <= Len(groupedThemes)
  /\ LET group   == groupedThemes[gi]
         created == ExportThemeGroupFiles(config, group, colorTokens, gi)
         lg      == logAll(globalLogger,
                           ThemeGroupLogBefore(group, resolveRootPath(config), colorTokens))
     IN /\ applied' = IF group.lightTheme = NoTheme THEN applied
                      ELSE applied \o computeCalls(group.lightTheme, gi)
                                   \o computeCalls(group.darkTheme, gi)
        /\ IF group.lightTheme # NoTheme /\ WriteBackEnabled(config, context)
           THEN /\ pending' = created
                /\ pc' = "writeBack"
                /\ globalLogger' = lg
                /\ UNCHANGED <<files, gi>>
           ELSE /\ files' = files \o created
                /\ gi' = gi + 1
                /\ globalLogger' =
                     IF group.lightTheme = NoTheme THEN lg
                     ELSE logAll(lg, ThemeColorsLogAfter(config, context, group, colorTokens))
                /\ UNCHANGED <<pending, pc>>
  /\ UNCHANGED <<loggerCalls, groupVars, exporter, run, config, context, colorTokens,
                 themesToApply, groupedThemes, writes, result, prev,
                 callbacks, microtasks>>

\* index.ts:191-205, 307-309, 139-140: writeTokenProperties has resolved;
\* createThemeColors and exportThemeGroup return and the loop pushes the
\* group's files
WriteBackDone ==
  /\ exporter = "current"
  /\ pc = "writeBack"
  /\ writes' = writes \o PropertyWrites(config, colorTokens, Tail(pending), gi)
  /\ globalLogger' = logAll(globalLogger,
                            ThemeColorsLogAfter(config, context, groupedThemes[gi], colorTokens))
  /\ files' = files \o pending
  /\ pending' = <<>>
  /\ gi' = gi + 1
  /\ pc' = "groups"
  /\ UNCHANGED <<loggerCalls, groupVars, exporter, run, config, context, colorTokens,
                 themesToApply, groupedThemes, applied, result, prev,
                 callbacks, microtasks>>

\* index.ts:144
ExportReturn ==
  /\ exporter = "current"
  /\ pc = "groups"
  /\ gi > Len(groupedThemes)
  /\ pc' = "returned"
  /\ result' = [returned |-> TRUE, files |-> files]
  /\ UNCHANGED <<globalLogger, loggerCalls, groupVars, exporter, run, config, context, files,
                 colorTokens, themesToApply, groupedThemes, gi, pending, writes,
                 applied, prev, callbacks, microtasks>>

\* the export runs a second time in the same process, on the same data,
\* theme selection and configuration except, possibly, for the write-back
\* switches; the module's globalLogger stays
Rerun ==
  /\ exporter = "current"
  /\ run = "first"
  /\ pc \in {"returned", "thrown"}
  /\ run' = "second"
  /\ prev' = [ended |-> pc, config |-> config, context |-> context,
              result |-> result, writes |-> writes]
  /\ \E w \in BOOLEAN, p \in BOOLEAN :
       /\ config' = [config EXCEPT !.writeNameToProperty = w]
       /\ context' = [context EXCEPT !.isPreview = p]
  /\ pc' = "idle"
  /\ files' = <<>>
  /\ colorTokens' = <<>>
  /\ themesToApply' = <<>>
  /\ groupedThemes' = <<>>
  /\ gi' = 1
  /\ pending' = <<>>
  /\ writes' = <<>>
  /\ applied' = <<>>
  /\ result' = NoResult
  /\ UNCHANGED <<callbacks, microtasks>>
  /\ UNCHANGED <<globalLogger, loggerCalls, groupVars, exporter>>

Next == ExportStart \/ TokenDataLoaded \/ ThemesFetched \/ BeginGroup
          \/ WriteBackDone \/ ExportReturn \/ Rerun

Spec == ExportInit /\ [][Next]_vars

---------------------------------------------------------------------------
(* The export run, earlier variant (index.ts:395-585) *)

\* index.ts:419: getTokens has resolved
EarlierTokensFetched ==
  /\ exporter = "earlier"
  /\ pc = "getTokens"
  /\ pc' = "getTokenGroups"
  /\ UNCHANGED <<globalLogger, loggerCalls, groupVars, exporter, run, config, context, files,
                 colorTokens, themesToApply, groupedThemes, gi, pending, writes,
                 applied, result, prev, callbacks, microtasks>>

\* index.ts:420: getTokenGroups has resolved; getTokenCollections is awaited
EarlierTokenGroupsFetched ==
  /\ exporter = "earlier"
  /\ pc = "getTokenGroups"
  /\ pc' = "loadTokenData"
  /\ UNCHANGED <<globalLogger, loggerCalls, groupVars, exporter, run, config, context, files,
                 colorTokens, themesToApply, groupedThemes, gi, pending, writes,
                 applied, result, prev, callbacks, microtasks>>

\* index.ts:488-510: what the forEach callback does for group g before it
\* awaits createThemeColors: the state it is left in.  A group without a
\* light theme is done; with write-back, createThemeColors waits for
\* writeTokenProperties; without, it has returned and the callback's
\* continuation is a job in the queue
CallbackStateAfterStart(g) ==
  IF groupedThemes[g].lightTheme = NoTheme THEN "done"
  ELSE IF WriteBackEnabled(config, context) THEN "awaitWrite"
  ELSE "awaitCreated"

\* index.ts:489-500, 544-565, 577-582: the lines logged by then
CallbackLogAtStart(g) ==
  LET group == groupedThemes[g]
      rootPath == resolveRootPath(config)
  IN << <<"Grouped theme", group.name, group.lightTheme # NoTheme, group.darkTheme # NoTheme>>,
        <<"Root path for theme", rootPath>>,
        <<"Created namespace folder for theme", rootPath, codeSafeVariableName(group.name)>> >>
     \o (IF group.lightTheme = NoTheme THEN <<>>
         ELSE << <<"colors path", rootPath, codeSafeVariableName(group.name)>>,
                 <<"Applied base theme", group.lightTheme.name>>,
                 <<"Applied dark theme", group.darkTheme.name>>,
                 <<"Emitted color set files", Len(colorTokens)>> >>)
     \o (IF CallbackStateAfterStart(g) = "awaitCreated"
         THEN ThemeColorsLogAfter(config, context, group, colorTokens)
         ELSE <<>>)

RECURSIVE ForEachLog(_)
ForEachLog(n) == IF n = 0 THEN <<>> ELSE ForEachLog(n - 1) \o CallbackLogAtStart(n)

RECURSIVE ForEachApplied(_)
ForEachApplied(n) ==
  IF n = 0 THEN <<>>
  ELSE ForEachApplied(n - 1)
         \o (IF groupedThemes[n].lightTheme = NoTheme THEN <<>>
             ELSE computeCalls(groupedThemes[n].lightTheme, n)
                    \o computeCalls(groupedThemes[n].darkTheme, n))

\* the continuations queued by the callbacks of the first n groups, in order
RECURSIVE ForEachJobs(_)
ForEachJobs(n) ==
  IF n = 0 THEN <<>>
  ELSE ForEachJobs(n - 1)
         \o (IF CallbackStateAfterStart(n) = "awaitCreated" THEN <<n>> ELSE <<>>)

\* index.ts:486-514: forEach calls the async callback for every group, one
\* after the other; each runs until its first await, having pushed its
\* namespace file; forEach does not wait for them, and the run returns
\* `files`.  The caller's continuation (job 0) is queued behind the
\* callbacks' continuations.
EarlierForEachAndReturn ==
  /\ exporter = "earlier"
  /\ pc = "groups"
  /\ LET n == Len(groupedThemes)
         rootPath == resolveRootPath(config)
     IN /\ files' = files \o [g \in 1..n |->
                                createNameSpaceFolder(codeSafeVariableName(groupedThemes[g].name),
                                                      rootPath, g)]
        /\ callbacks' = [g \in 1..n |->
                           [state   |-> CallbackStateAfterStart(g),
                            created |-> IF groupedThemes[g].lightTheme = NoTheme THEN <<>>
                                        ELSE ThemeColorFiles(colorTokens, rootPath,
                                               codeSafeVariableName(groupedThemes[g].name),
                                               groupedThemes[g].lightTheme,
                                               groupedThemes[g].darkTheme, g)]]
        /\ globalLogger' = logAll(globalLogger, ForEachLog(n))
        /\ applied' = ForEachApplied(n)
        /\ microtasks' = ForEachJobs(n) \o <<0>>
  /\ pc' = "returned"
  /\ UNCHANGED <<loggerCalls, groupVars, exporter, run, config, context, colorTokens,
                 themesToApply, groupedThemes, gi, pending, writes, result, prev>>

\* index.ts:502-509: the first job of the queue is a callback's
\* continuation: createdFiles is there and is pushed into files
EarlierCallbackResume ==
  /\ exporter = "earlier"
  /\ microtasks # <<>>
  /\ Head(microtasks) # 0
  /\ LET g == Head(microtasks)
     IN /\ files' = files \o callbacks[g].created
        /\ callbacks' = [callbacks EXCEPT ![g].state = "done"]
  /\ microtasks' = Tail(microtasks)
  /\ UNCHANGED <<globalLogger, loggerCalls, groupVars, exporter, run, config, context,
                 colorTokens, themesToApply, groupedThemes, gi, pending, writes,
                 applied, result, prev, pc>>

\* the first job of the queue is the caller's continuation: the caller
\* receives the file list as it is now
EarlierCallerReceives ==
  /\ exporter = "earlier"
  /\ microtasks # <<>>
  /\ Head(microtasks) = 0
  /\ result' = [returned |-> TRUE, files |-> files]
  /\ microtasks' = Tail(microtasks)
  /\ UNCHANGED <<globalLogger, loggerCalls, groupVars, exporter, run, config, context, files,
                 colorTokens, themesToApply, groupedThemes, gi, pending, writes,
                 applied, prev, pc, callbacks>>

\* index.ts:570-584: the writeTokenProperties of some callback completes (an
\* I/O completion, handled when the job queue is empty); createThemeColors
\* logs and returns, and the callback's continuation is queued
EarlierWriteBackDone ==
  /\ exporter = "earlier"
  /\ microtasks = <<>>
  /\ \E g \in 1..Len(callbacks) :
       /\ callbacks[g].state = "awaitWrite"
       /\ writes' = writes \o PropertyWrites(config, colorTokens, callbacks[g].created, g)
       /\ globalLogger' = logAll(globalLogger,
                                 ThemeColorsLogAfter(config, context, groupedThemes[g], colorTokens))
       /\ callbacks' = [callbacks EXCEPT ![g].state = "awaitCreated"]
       /\ microtasks' = <<g>>
  /\ UNCHANGED <<loggerCalls, groupVars, exporter, run, config, context, files, colorTokens,
                 themesToApply, groupedThemes, gi, pending, applied, result,
                 prev, pc>>

EarlierInit ==
  /\ globalLogger = NoLogger
  /\ loggerCalls = <<>>
  /\ GroupIdle
  /\ exporter = "earlier"
  /\ run = "first"
  /\ config \in Configs
  /\ context \in Contexts
  /\ pc = "idle"
  /\ prev = NoPrev
  /\ RunReset

NextEarlier == ExportStart \/ EarlierTokensFetched \/ EarlierTokenGroupsFetched
                 \/ TokenDataLoaded \/ ThemesFetched \/ EarlierForEachAndReturn
                 \/ EarlierCallbackResume \/ EarlierCallerReceives
                 \/ EarlierWriteBackDone

SpecEarlier == EarlierInit /\ [][NextEarlier]_vars

---------------------------------------------------------------------------
(* A direct call of groupThemes, one action per step *)

GroupInit ==
  /\ globalLogger = NoLogger
  /\ loggerCalls = <<>>
  /\ gThemes \in SeqsUpTo(ThemeSet, MaxThemes)
  /\ gGroups = <<>>
  /\ gIdx = 1
  /\ gPc = "call"
  /\ gResult = <<>>
  /\ ExportIdle

\* part_000:45-50: the empty case returns at once; otherwise the logger is
\* fetched and the Map created
GroupCall ==
  /\ gPc = "call"
  /\ IF Len(gThemes) = 0
     THEN /\ gPc' = "done"
          /\ UNCHANGED globalLogger
     ELSE /\ gPc' = "loop"
          /\ globalLogger' = getLogger(globalLogger, "")
  /\ UNCHANGED <<gThemes, gGroups, gIdx, gResult>>
  /\ UNCHANGED <<loggerCalls, exportVars>>

\* part_000:52-68: one iteration
GroupIterate ==
  /\ gPc = "loop"
  /\ gIdx <= Len(gThemes)
  /\ gGroups' = GroupStep(gGroups, gThemes[gIdx])
  /\ globalLogger' = logAll(globalLogger, GroupStepLog(gGroups, gThemes[gIdx]))
  /\ gIdx' = gIdx + 1
  /\ UNCHANGED <<gThemes, gPc, gResult>>
  /\ UNCHANGED <<loggerCalls, exportVars>>

\* part_000:70-76
GroupReturn ==
  /\ gPc = "loop"
  /\ gIdx > Len(gThemes)
  /\ gResult' = GroupResult(gGroups)
  /\ gPc' = "done"
  /\ UNCHANGED <<globalLogger, gThemes, gGroups, gIdx>>
  /\ UNCHANGED <<loggerCalls, exportVars>>

GroupNext == GroupCall \/ GroupIterate \/ GroupReturn

SpecGroup == GroupInit /\ [][GroupNext]_vars

---------------------------------------------------------------------------
(* A direct call of the earlier groupThemes, one action per step *)

EarlierGroupInit ==
  /\ globalLogger = NoLogger
  /\ loggerCalls = <<>>
  /\ gThemes \in SeqsUpTo(ThemeSet, MaxThemes)
  /\ gGroups = <<>>
  /\ gIdx = 1
  /\ gPc = "call"
  /\ gResult = <<>>
  /\ exporter = "earlier"
  /\ run = "first"
  /\ config = CHOOSE c \in Configs : ~c.generateRootCatalog /\ ~c.writeNameToProperty
                 /\ ~c.excludeCollectionsInPipelines /\ c.excludedCollections = <<>>
  /\ context = [themeIds |-> <<>>, isPreview |-> FALSE]
  /\ pc = "off"
  /\ prev = NoPrev
  /\ RunReset

\* part_000:112-114: no early return; the logger is fetched, the call logged
\* and the Map created
EarlierGroupCall ==
  /\ gPc = "call"
  /\ exporter = "earlier"
  /\ gPc' = "loop"
  /\ globalLogger' = logAll(getLogger(globalLogger, ""),
                            << <<"Grouping themes", Len(gThemes)>> >>)
  /\ UNCHANGED <<gThemes, gGroups, gIdx, gResult>>
  /\ UNCHANGED <<loggerCalls, exportVars>>

\* part_000:116-124: one iteration
EarlierGroupIterate ==
  /\ gPc = "loop"
  /\ exporter = "earlier"
  /\ gIdx <= Len(gThemes)
  /\ LET t     == gThemes[gIdx]
         base  == baseNameFromTheme(t.name)
         after == EarlierGroupStep(gGroups, t)
         entry == MapGet(after, base)
     IN /\ gGroups' = after
        /\ globalLogger' =
             logAll(globalLogger,
                    << <<"Processing theme", t.name>>,
                       <<"Base name from theme", t.name, base>>,
                       <<"Processing theme", t.name, base,
                         entry.light # NoTheme, entry.dark # NoTheme>> >>)
  /\ gIdx' = gIdx + 1
  /\ UNCHANGED <<gThemes, gPc, gResult>>
  /\ UNCHANGED <<loggerCalls, exportVars>>

\* part_000:126-133
EarlierGroupReturn ==
  /\ gPc = "loop"
  /\ exporter = "earlier"
  /\ gIdx > Len(gThemes)
  /\ gResult' = GroupResult(gGroups)
  /\ globalLogger' =
       logAll(globalLogger,
              [k \in 1..Len(gGroups) |->
                 <<"Grouping theme base", gGroups[k].key,
                   gGroups[k].value.light # NoTheme,
                   gGroups[k].value.dark # NoTheme>>])
  /\ gPc' = "done"
  /\ UNCHANGED <<gThemes, gGroups, gIdx>>
  /\ UNCHANGED <<loggerCalls, exportVars>>

EarlierGroupNext == EarlierGroupCall \/ EarlierGroupIterate \/ EarlierGroupReturn

SpecGroupEarlier == EarlierGroupInit /\ [][EarlierGroupNext]_vars

---------------------------------------------------------------------------
(* The logger used on its own: a client module calls getLogger and log *)

\* the rootPath arguments tried: none (as groupThemes calls it) and two paths
RootPaths == {"", "Colors.xcassets", "Other"}

\* the messages tried
Messages == { <<"a">>, <<"b","c">> }

LoggerInit ==
  /\ globalLogger = NoLogger
  /\ loggerCalls = <<>>
  /\ GroupIdle
  /\ ExportIdle

\* index.ts:54-59: getLogger(rootPath)
LoggerGet ==
  /\ Len(loggerCalls) < MaxLoggerCalls
  /\ \E rootPath \in RootPaths :
       /\ globalLogger' = getLogger(globalLogger, rootPath)
       /\ loggerCalls' = Append(loggerCalls,
                                [op |-> "getLogger", rootPath |-> rootPath,
                                 message |-> <<>>])
  /\ UNCHANGED <<groupVars, exportVars>>

\* index.ts:46-49: log(message) on a reference that getLogger has returned
LoggerLog ==
  /\ Len(loggerCalls) < MaxLoggerCalls
  /\ globalLogger.created
  /\ \E message \in Messages :
       /\ globalLogger' = log(globalLogger, message)
       /\ loggerCalls' = Append(loggerCalls,
                                [op |-> "log", rootPath |-> "",
                                 message |-> message])
  /\ UNCHANGED <<groupVars, exportVars>>

LoggerNext == LoggerGet \/ LoggerLog

SpecLogger == LoggerInit /\ [][LoggerNext]_vars

---------------------------------------------------------------------------
(* What the claims say about names, stated without the code's functions *)

\* the name without its leading and trailing white space
TrimmedName(name) ==
  LET solid == {k \in 1..Len(name) : ~IsWhitespace(name[k])}
  IN IF solid = {} THEN <<>> ELSE SubSeq(name, MinOf(solid), MaxOf(solid))

\* the trimmed, lower-cased name ends with the word `word`
NameEndsWithWord(name, word) ==
  LET n == TrimmedName(name)
  IN \E k \in 0..Len(n) :
       /\ Len(n) - k = Len(word)
       /\ \A j \in 1..Len(word) : toLowerChar(n[k + j]) = word[j]
       /\ k > 0 => ~IsWordChar(n[k])

\* "light", "dark" or "undefined": the variant the name's suffix states
SuffixOf(name) ==
  IF NameEndsWithWord(name, W_light) THEN "light"
  ELSE IF NameEndsWithWord(name, W_dark) THEN "dark"
  ELSE "undefined"

\* the first white-space-delimited word of the trimmed name
FirstWord(name) ==
  LET n  == TrimmedName(name)
      ws == {k \in 1..Len(n) : IsWhitespace(n[k])}
  IN IF ws = {} THEN n ELSE SubSeq(n, 1, MinOf(ws) - 1)

\* the positions of ts, among the first n, whose theme has this base name
\* and variant
Positions(ts, n, base, variant) ==
  {k \in 1..n : FirstWord(ts[k].name) = base /\ SuffixOf(ts[k].name) = variant}

\* the theme a slot must hold after the first n themes of ts: the last one
\* with this base name and variant, or none
LastOf(ts, n, base, variant) ==
  LET ps == Positions(ts, n, base, variant)
  IN IF ps = {} THEN NoTheme ELSE ts[MaxOf(ps)]

SlotOf(group, variant) ==
  IF variant = "light" THEN group.lightTheme ELSE group.darkTheme

---------------------------------------------------------------------------
(* Claims about groupThemes, checked under SpecGroup *)

\* C1: a theme whose trimmed, lower-cased name ends with the word light
\* (dark) is put, by the iteration that handles it, into the light (dark)
\* slot of the group named by the first word of its trimmed name; no slot of
\* the Map or of the result ever holds a theme of the other variant or of
\* another base name; the result has exactly one group for the base name of
\* every such input theme, with that slot filled, and the theme itself is in
\* it when no other input theme shares its base name and variant; and
\* ["Brand Light", "Brand Dark"] yields exactly the one group Brand.
C1_GroupedByFirstWordAndSuffix ==
  /\ (gPc = "loop" /\ gIdx > 1 /\ SuffixOf(gThemes[gIdx - 1].name) # "undefined") =>
       LET t == gThemes[gIdx - 1]
       IN /\ MapHas(gGroups, FirstWord(t.name))
          /\ MapGet(gGroups, FirstWord(t.name))[SuffixOf(t.name)] = t
  /\ \A k \in 1..Len(gGroups) : \A v \in {"light", "dark"} :
       gGroups[k].value[v] # NoTheme =>
         /\ SuffixOf(gGroups[k].value[v].name) = v
         /\ FirstWord(gGroups[k].value[v].name) = gGroups[k].key
  /\ \A k \in 1..Len(gResult) : \A v \in {"light", "dark"} :
       SlotOf(gResult[k], v) # NoTheme =>
         /\ SuffixOf(SlotOf(gResult[k], v).name) = v
         /\ FirstWord(SlotOf(gResult[k], v).name) = gResult[k].name
  /\ gPc = "done" =>
       \A i \in 1..Len(gThemes) :
         LET t == gThemes[i]
             v == SuffixOf(t.name)
             named == {k \in 1..Len(gResult) : gResult[k].name = FirstWord(t.name)}
         IN v # "undefined" =>
              /\ Cardinality(named) = 1
              /\ \A k \in named :
                   /\ SlotOf(gResult[k], v) # NoTheme
                   /\ (\A j \in Positions(gThemes, Len(gThemes), FirstWord(t.name), v) :
                         gThemes[j] = t)
                      => SlotOf(gResult[k], v) = t
  /\ (gPc = "done" /\ gThemes = <<themes[1], themes[2]>>) =>
       gResult = << [name |-> <<"B","r","a","n","d">>,
                     lightTheme |-> themes[1], darkTheme |-> themes[2]] >>

\* the call has returned for an input with a padded upper-case light name, a
\* hyphenated dark name and the Brand pair
C1_Witness ==
  /\ gPc = "done"
  /\ gThemes = <<themes[3], themes[1], themes[2]>>
  /\ Len(gResult) = 2
  /\ gResult[1].name = <<"n","i","g","h","t">>
  /\ gResult[1].lightTheme = themes[3]
  /\ gResult[2].lightTheme = themes[1]
  /\ gResult[2].darkTheme = themes[2]

\* C8: after any number of iterations every slot of every group holds the
\* last theme handled so far with that base name and variant (none if there
\* is none), so a later theme replaces an earlier one of its base name and
\* variant, a replaced theme is in no slot, and the other slot of the group
\* is what it was; the returned groups hold the last themes of the input.
C8_LastThemeWins ==
  /\ gPc = "loop" =>
       \A k \in 1..Len(gGroups) : \A v \in {"light", "dark"} :
         gGroups[k].value[v] = LastOf(gThemes, gIdx - 1, gGroups[k].key, v)
  /\ gPc = "done" =>
       /\ \A k \in 1..Len(gResult) : \A v \in {"light", "dark"} :
            SlotOf(gResult[k], v) = LastOf(gThemes, Len(gThemes), gResult[k].name, v)
       /\ \A i \in 1..Len(gThemes) :
            LET t == gThemes[i]
                v == SuffixOf(t.name)
            IN (v # "undefined" /\ LastOf(gThemes, Len(gThemes), FirstWord(t.name), v) # t)
                 => \A k \in 1..Len(gResult) : \A w \in {"light", "dark"} :
                      SlotOf(gResult[k], w) # t

\* Brand Dark, then Brand Light, then a second light theme of base Brand:
\* the second light theme holds the slot and Brand Dark is still there
C8_Witness ==
  /\ gPc = "done"
  /\ gThemes = <<themes[2], themes[1], themes[5]>>
  /\ Len(gResult) = 1
  /\ gResult[1].lightTheme = themes[5]
  /\ gResult[1].darkTheme = themes[2]

---------------------------------------------------------------------------
(* What the claims say about a run, stated without the code's functions *)

\* the fetched tokens of type color
ColorTokenSet == {t \in {tokens[k] : k \in 1..Len(tokens)} : t.tokenType = "color"}

\* lower-cased and trimmed
Normalized(name) == [k \in 1..Len(TrimmedName(name)) |-> toLowerChar(TrimmedName(name)[k])]

\* the four conditions under which a token is excluded
ExcludedByRule(cfg, token) ==
  /\ cfg.excludeCollectionsInPipelines
  /\ cfg.excludedCollections # <<>>
  /\ \E c \in 1..Len(tokenCollections) :
       /\ tokenCollections[c].persistentId = token.collectionId
       /\ \E e \in 1..Len(cfg.excludedCollections) :
            Normalized(tokenCollections[c].name) = Normalized(cfg.excludedCollections[e])

\* the valuation of a theme contains the token's id
HasValueUnder(theme, tokenId) ==
  /\ theme # NoTheme
  /\ \E k \in 1..Len(themedValues(theme.id)) : themedValues(theme.id)[k][1] = tokenId

\* the token's value under it (the last one, should the id come twice)
ValueUnder(theme, tokenId) ==
  LET vs == themedValues(theme.id)
  IN vs[MaxOf({k \in 1..Len(vs) : vs[k][1] = tokenId})][2]

\* some requested id is the id or idInVersion of no fetched theme
SomeIdUnmatched(themeIds) ==
  \E k \in 1..Len(themeIds) : \A t \in ThemeSet :
    t.id # themeIds[k] /\ t.idInVersion # themeIds[k]

\* no selected theme has a name with a light or dark suffix
NoSelectedSuffix(themeIds) ==
  \A k \in 1..Len(themeIds) : \A t \in ThemeSet :
    (t.id = themeIds[k] \/ t.idInVersion = themeIds[k]) => SuffixOf(t.name) = "undefined"

FilesOfKind(fs, kind) == SelectSeq(fs, LAMBDA f : f.kind = kind)
FilesOfGroup(fs, g) == SelectSeq(fs, LAMBDA f : f.group = g)
ContentsFiles(fs) == SelectSeq(fs, LAMBDA f : f.name = "Contents.json")

\* the per-token files of group g for the token
TokenFiles(fs, g, tokenId) ==
  SelectSeq(fs, LAMBDA f : f.kind = "colorset" /\ f.group = g /\ f.token = tokenId)

SkipsWriteBack(cfg, ctx) == ctx.isPreview \/ ~cfg.writeNameToProperty

---------------------------------------------------------------------------
(* Claims about the export run, checked under Spec *)

\* C3: a run whose requested theme ids include one that matches no fetched
\* theme, at any position, never gets to the root catalog or to the groups
\* and never returns a file list: its files hold nothing but the log file,
\* it creates no group and writes no property; and a run that has thrown
\* has returned nothing.
C3_UnmatchedThemeIdAborts ==
  /\ SomeIdUnmatched(context.themeIds) =>
       /\ pc \in {"idle", "loadTokenData", "getTokenThemes", "thrown"}
       /\ ~result.returned
       /\ \A k \in 1..Len(files) : files[k].kind = "log"
       /\ pending = <<>>
       /\ groupedThemes = <<>>
       /\ writes = <<>>
       /\ applied = <<>>
  /\ pc = "thrown" => (SomeIdUnmatched(context.themeIds) /\ ~result.returned)

\* the run has thrown on an unmatched id that comes after a matched one
C3_Witness ==
  /\ pc = "thrown"
  /\ context.themeIds = <<"t1", "zz">>
  /\ config.generateRootCatalog
  /\ WriteBackEnabled(config, context)

C5_BaseAndDarkValues ==
  /\ \A k \in 1..Len(files) :
       files[k].kind = "colorset" =>
         LET f     == files[k]
             group == groupedThemes[f.group]
             token == TokenOfId(f.token)
         IN /\ group.lightTheme # NoTheme
            /\ f.colors[1] =
                 [value |-> IF HasValueUnder(group.lightTheme, token.id)
                            THEN ValueUnder(group.lightTheme, token.id)
                            ELSE token.value,
                  appearance |-> "universal"]
            /\ IF HasValueUnder(group.darkTheme, token.id)
               THEN /\ Len(f.colors) = 2
                    /\ f.colors[2] = [value |-> ValueUnder(group.darkTheme, token.id),
                                      appearance |-> "dark"]
               ELSE Len(f.colors) = 1
  /\ result.returned =>
       \A g \in 1..Len(groupedThemes) :
         groupedThemes[g].lightTheme # NoTheme =>
           \A c \in 1..Len(colorTokens) :
             Len(TokenFiles(result.files, g, colorTokens[c].id)) = 1

\* the group Brand with both themes: k1 has both values from the themes, k2
\* falls back to its own value and has no dark entry, k3 falls back and has
\* a dark entry
C5_Witness ==
  /\ result.returned
  /\ Len(groupedThemes) = 1
  /\ groupedThemes[1].lightTheme = themes[1]
  /\ groupedThemes[1].darkTheme = themes[2]
  /\ Len(colorTokens) = 3
  /\ TokenFiles(result.files, 1, "k1")[1].colors[1].value = "t1-k1"
  /\ TokenFiles(result.files, 1, "k1")[1].colors[2].value = "t2-k1"
  /\ TokenFiles(result.files, 1, "k2")[1].colors[1].value = "raw-k2"
  /\ Len(TokenFiles(result.files, 1, "k2")[1].colors) = 1
  /\ TokenFiles(result.files, 1, "k3")[1].colors[1].value = "raw-k3"
  /\ TokenFiles(result.files, 1, "k3")[1].colors[2].value = "t2-k3"

\* C6: for a group without a light theme the run never makes a per-token
\* file, never applies a theme and never writes a property, and the list it
\* returns holds exactly one file of that group, the namespace marker
\* Contents.json.
C6_DarkOnlyGroupOnlyMarker ==
  \A g \in 1..Len(groupedThemes) :
    groupedThemes[g].lightTheme = NoTheme =>
      /\ \A k \in 1..Len(files) :
           files[k].group = g => /\ files[k].kind = "namespace"
                                 /\ files[k].name = "Contents.json"
                                 /\ files[k].namespace
      /\ \A k \in 1..Len(pending) : pending[k].group # g
      /\ \A k \in 1..Len(applied) : applied[k].group # g
      /\ \A k \in 1..Len(writes) : writes[k].group # g
      /\ result.returned => Len(FilesOfGroup(result.files, g)) = 1

\* only Brand Dark is selected, write-back is on, and the run has returned
C6_Witness ==
  /\ result.returned
  /\ context.themeIds = <<"t2">>
  /\ WriteBackEnabled(config, context)
  /\ Len(groupedThemes) = 1
  /\ groupedThemes[1].lightTheme = NoTheme
  /\ groupedThemes[1].darkTheme = themes[2]
  /\ Len(colorTokens) > 0

C9_SecondRunSameContents ==
  (run = "second" /\ prev.config = config /\ prev.context = context) =>
    /\ pc = "thrown" => prev.ended = "thrown"
    /\ result.returned =>
         /\ prev.ended = "returned"
         /\ ContentsFiles(result.files) = ContentsFiles(prev.result.files)

\* the second of two equal runs has returned namespace and per-token files,
\* and the logger holds the lines of both runs
C9_Witness ==
  /\ run = "second"
  /\ prev.config = config
  /\ prev.context = context
  /\ result.returned
  /\ Len(FilesOfKind(result.files, "colorset")) >= 4
  /\ Len(FilesOfKind(result.files, "namespace")) = 2
  /\ Len(globalLogger.content) > 2 * Len(LoadedLog)

\* C10: a run in preview mode, or with writeNameToProperty off, writes no
\* property at any point; and of two runs that differ at most in those two
\* switches, the second returns the per-token files the first returned.
C10_WriteBackSkipped ==
  /\ SkipsWriteBack(config, context) => (writes = <<>> /\ pc # "writeBack")
  /\ (run = "second" /\ result.returned) =>
       /\ prev.ended = "returned"
       /\ FilesOfKind(result.files, "colorset") = FilesOfKind(prev.result.files, "colorset")

\* the first run wrote the names, the second, in preview mode, has returned
\* per-token files and written nothing
C10_Witness ==
  /\ run = "second"
  /\ result.returned
  /\ context.isPreview
  /\ config.writeNameToProperty
  /\ ~prev.context.isPreview
  /\ prev.writes # <<>>
  /\ writes = <<>>
  /\ FilesOfKind(result.files, "colorset") # <<>>

---------------------------------------------------------------------------
(* The claim about the order of the asynchronous steps *)

\* C2: the file list the caller receives holds, for every theme group, the
\* group's namespace marker and, if the group has a light theme, a per-token
\* file for every color token left after the filter; the groups' files come
\* group after group; and the write-back of every such group, if it is on,
\* has been done by then.
C2_ReturnedListComplete ==
  result.returned =>
    /\ \A g \in 1..Len(groupedThemes) :
         /\ \E k \in 1..Len(result.files) :
              result.files[k].kind = "namespace" /\ result.files[k].group = g
         /\ groupedThemes[g].lightTheme # NoTheme =>
              /\ \A c \in 1..Len(colorTokens) :
                   TokenFiles(result.files, g, colorTokens[c].id) # <<>>
              /\ (WriteBackEnabled(config, context) /\ colorTokens # <<>>) =>
                   \E w \in 1..Len(writes) : writes[w].group = g
    /\ \A j, k \in 1..Len(result.files) :
         j < k => result.files[j].group <= result.files[k].group

---------------------------------------------------------------------------
(* Which selected theme gives which value *)

\* the value a color set must show for the token under the theme, the
\* token's own value if the theme has none for it
BaseValueUnder(theme, token) ==
  IF HasValueUnder(theme, token.id) THEN ValueUnder(theme, token.id)
  ELSE token.value

---------------------------------------------------------------------------
(* Themes without a suffix *)

\* the input without the themes whose name has no light or dark suffix
SuffixedOnly(ts) == SelectSeq(ts, LAMBDA t : SuffixOf(t.name) # "undefined")

\* C12: a call that has returned has returned what the same groupThemes
\* returns for the input with every theme without a light or dark suffix
\* taken out, the same groups in the same order; and ["Brand"] yields [].
C12_UnsuffixedWithoutEffect ==
  gPc = "done" =>
    /\ gResult = IF exporter = "earlier"
                 THEN earlierGroupThemes(SuffixedOnly(gThemes))
                 ELSE groupThemes(SuffixedOnly(gThemes))
    /\ gThemes = <<themes[7]>> => gResult = <<>>

---------------------------------------------------------------------------
(* The order of the groups *)

\* the position in ts of the first theme with a suffix and this base name,
\* 0 if there is none
FirstSeen(ts, base) ==
  LET ps == {k \in 1..Len(ts) :
               SuffixOf(ts[k].name) # "undefined" /\ FirstWord(ts[k].name) = base}
  IN IF ps = {} THEN 0 ELSE MinOf(ps)

\* C13: at every step of a call the entries of the Map, and at its end the
\* returned groups, stand in the order in which their base names are first
\* seen in the input: of two groups, the one whose base name is first seen
\* earlier comes first, whatever duplicates or second variants follow.
C13_OrderedByFirstSeen ==
  /\ \A i, j \in 1..Len(gGroups) :
       i < j => /\ FirstSeen(gThemes, gGroups[i].key) > 0
                /\ FirstSeen(gThemes, gGroups[i].key) < FirstSeen(gThemes, gGroups[j].key)
  /\ gPc = "done" =>
       \A i, j \in 1..Len(gResult) :
         i < j => /\ FirstSeen(gThemes, gResult[i].name) > 0
                  /\ FirstSeen(gThemes, gResult[i].name) < FirstSeen(gThemes, gResult[j].name)

\* the call has returned for Brand Light, night LIGHT, Brand Dark: the
\* second variant of Brand comes after night, and Brand is still first
C13_Witness ==
  /\ gPc = "done"
  /\ gThemes = <<themes[1], themes[3], themes[2]>>
  /\ Len(gResult) = 2
  /\ gResult[1].name = <<"B","r","a","n","d">>
  /\ gResult[1].darkTheme = themes[2]
  /\ gResult[2].name = <<"n","i","g","h","t">>

---------------------------------------------------------------------------
(* The one logger *)

\* the messages of the log calls made, in call order
LoggedMessages ==
  LET cs == SelectSeq(loggerCalls, LAMBDA c : c.op = "log")
  IN [k \in 1..Len(cs) |-> cs[k].message]

\* the rootPath of the first getLogger call
FirstRootPath ==
  loggerCalls[MinOf({k \in 1..Len(loggerCalls) : loggerCalls[k].op = "getLogger"})].rootPath

\* the text of the lines, one after the other with a line break between
RECURSIVE JoinLines(_)
JoinLines(ms) ==
  IF ms = <<>> THEN <<>>
  ELSE IF Len(ms) = 1 THEN ms[1]
  ELSE JoinLines(SubSeq(ms, 1, Len(ms) - 1)) \o <<"\n">> \o ms[Len(ms)]

\* C14: after any calls of getLogger and log there is a logger exactly if
\* getLogger has been called; the path of its log file is the one the
\* rootPath of the first getLogger call gives, whatever the later calls were
\* given; and the file's text is the messages of all log calls, in call
\* order, one line each.
C14_OneLoggerOneFile ==
  /\ globalLogger.created <=>
       \E k \in 1..Len(loggerCalls) : loggerCalls[k].op = "getLogger"
  /\ globalLogger.created =>
       /\ globalLogger.path = IF FirstRootPath = "" THEN <<>>
                              ELSE <<".", FirstRootPath, "">>
       /\ globalLogger.content = JoinLines(LoggedMessages)

\* getLogger("Colors.xcassets"), log, getLogger("Other"), log: the path is
\* that of the first call and both lines are in the file
C14_Witness ==
  /\ Len(loggerCalls) = 4
  /\ loggerCalls[1].op = "getLogger" /\ loggerCalls[1].rootPath = "Colors.xcassets"
  /\ loggerCalls[2].op = "log" /\ loggerCalls[2].message = <<"a">>
  /\ loggerCalls[3].op = "getLogger" /\ loggerCalls[3].rootPath = "Other"
  /\ loggerCalls[4].op = "log" /\ loggerCalls[4].message = <<"b","c">>
  /\ globalLogger.path = <<".", "Colors.xcassets", "">>
  /\ globalLogger.content = <<"a", "\n", "b", "c">>

---------------------------------------------------------------------------
(* What every returned group is like *)

\* C15: of the groups a call has returned, every one has a light or a dark
\* theme, no two have the same name, every theme in a slot is one of the
\* input, and no theme is in two slots, of one group or of two.
C15_GroupsWellFormed ==
  gPc = "done" =>
    /\ \A i \in 1..Len(gResult) :
         gResult[i].lightTheme # NoTheme \/ gResult[i].darkTheme # NoTheme
    /\ \A i, j \in 1..Len(gResult) :
         gResult[i].name = gResult[j].name => i = j
    /\ \A i \in 1..Len(gResult) : \A v \in {"light", "dark"} :
         SlotOf(gResult[i], v) # NoTheme =>
           /\ \E k \in 1..Len(gThemes) : gThemes[k] = SlotOf(gResult[i], v)
           /\ \A j \in 1..Len(gResult) : \A w \in {"light", "dark"} :
                SlotOf(gResult[j], w) = SlotOf(gResult[i], v) => (j = i /\ w = v)

\* the call has returned for Brand Light, Brand Dark, night LIGHT: a group
\* with both themes and a group with one
C15_Witness ==
  /\ gPc = "done"
  /\ gThemes = <<themes[1], themes[2], themes[3]>>
  /\ Len(gResult) = 2
  /\ gResult[1].lightTheme = themes[1]
  /\ gResult[1].darkTheme = themes[2]
  /\ gResult[2].lightTheme = themes[3]
  /\ gResult[2].darkTheme = NoTheme

====
